---- MODULE Spec2Model ----
(***************************************************************************)
(* Model of the three Lambda handlers of aws_opensearch_preprocess_lambdas *)
(*                                                                         *)
(*   transform_cloudwatch_lambda.py  the log transform handler             *)
(*   transform_lambda.py             the metric transform handler          *)
(*   add_cloudwatch_subscrition.py   the subscription provisioner          *)
(*                                                                         *)
(* Strings that the code tests with startswith are sequences of tokens,    *)
(* so that "cg-aws-broker-" + "dev" is <<"cg-aws-broker-", "dev">> and     *)
(* startswith is a prefix test on the sequence.  A tag mapping (a Python   *)
(* dict) is a set of <<key, value>> pairs with unique keys.                *)
(*                                                                         *)
(* A handler reads event["records"] front to back and never looks ahead:   *)
(* the batch has batch_size records, and event.records holds the ones the loop *)
(* has reached, each drawn when the loop reaches it.                       *)
(***************************************************************************)
EXTENDS Integers, Sequences, FiniteSets, TLC

VARIABLES
    fn,              \* the handler that is running: "none", "log", "metric", "sub"
    pc,              \* "idle", "loop" (iterating event["records"]), "done"
    outcome,         \* "none", "returned", "raised"
    returned,        \* the "records" list of the returned batch
    environ,         \* os.environ of the invocation
    event,           \* the handler's event argument, as far as it has been read
    batch_size,      \* len(event["records"])
    output_records,  \* lambda_handler's output_records
    s3_output,       \* the log handler's s3_output
    trail,           \* per record handled: the events it augmented, whether it raised
    arn_cache,       \* lru_cache of get_tags_from_arn, least recently used first
    name_cache,      \* lru_cache of get_tags_from_name
    desc_cache,      \* lru_cache of get_rds_description
    fetched,         \* AWS read calls issued in this invocation and their answers
    puts,            \* put_object calls issued in this invocation, in order
    filters,         \* put_subscription_filter calls issued in this invocation
    bucket_objects,  \* successful bulk-storage writes of all invocations
    clock,           \* wall clock, in seconds, as last read
    invocation       \* number of handler invocations started in this process

vars == <<fn, pc, outcome, returned, environ, event, batch_size, output_records,
          s3_output, trail, arn_cache, name_cache, desc_cache, fetched, puts,
          filters, bucket_objects, clock, invocation>>

-----------------------------------------------------------------------------
(* Bounds of the model *)

MaxRecords == 2       \* records per batch
MaxLines == 2         \* lines per record payload
MaxInvocations == 2   \* invocations of a warm process
MaxClock == 1         \* seconds the clock may advance

-----------------------------------------------------------------------------
(* Values *)

None == <<"None">>    \* Python's None, an unset environment variable

StartsWith(s, p) == Len(p) <= Len(s) /\ SubSeq(s, 1, Len(p)) = p

Keys(tags) == {kv[1] : kv \in tags}

(* dict.get(key): the value, or None *)
Get(dict, key) ==
    IF key \in Keys(dict) THEN (CHOOSE kv \in dict : kv[1] = key)[2] ELSE None

NameDev == <<"cg-aws-broker-", "dev", "-db">>
NameProd == <<"cg-aws-broker-", "prod", "-db">>

Region == <<"us-gov-west-1">>
Account == <<"123456">>
Bucket == <<"bucket">>

Environments == {None, <<"bogus">>, <<"development">>, <<"production">>}

(* Firehose record ids are unique within a batch *)
RecordIds == 1..MaxRecords

SeqsUpTo(S, n) == UNION {[1..k -> S] : k \in 0..n}

(* What a tag API answers for a resource: an error, or a tag list. *)
TagLists ==
    { {},
      {<<"Owner", "team">>},
      {<<"Organization GUID", "x">>, <<"Owner", "team">>} }

Responses(errors) ==
    [ok : {FALSE}, error : errors, tags : {{}}]
    \cup [ok : {TRUE}, error : {"none"}, tags : TagLists]

-----------------------------------------------------------------------------
(* The lru_cache of functools: entries in order of use, oldest first. *)

maxsize == 256

CacheHas(cache, key) == \E k \in 1..Len(cache) : cache[k].key = key

CacheIndex(cache, key) == CHOOSE k \in 1..Len(cache) : cache[k].key = key

CacheValue(cache, key) == cache[CacheIndex(cache, key)].value

Without(s, k) == SubSeq(s, 1, k - 1) \o SubSeq(s, k + 1, Len(s))

(* a hit moves the entry to the most-recently-used end *)
CacheTouch(cache, key) ==
    Append(Without(cache, CacheIndex(cache, key)), cache[CacheIndex(cache, key)])

(* a miss stores the result, evicting the least recently used entry when full *)
CacheStore(cache, key, value) ==
    LET kept == IF Len(cache) >= maxsize THEN Tail(cache) ELSE cache
    IN  Append(kept, [key |-> key, value |-> value])

-----------------------------------------------------------------------------
(* transform_cloudwatch_lambda.py: inputs *)

(* A log group is its path split on "/": "/aws/rds/instance/<name>/postgresql" *)
LogGroupOf(name) ==
    << <<>>, <<"aws">>, <<"rds">>, <<"instance">>, name, <<"postgresql">> >>

ShortLogGroup == << <<>>, <<"aws">>, <<"lambda">> >>

LogEvent == [message |-> "m", timestamp |-> 1]

LogObject(logGroup, logEvents) ==
    [kind |-> "obj", logGroup |-> logGroup, logStream |-> "s",
     logEvents |-> logEvents]

(* A line of a decompressed payload: bytes json.loads rejects with           *)
(* JSONDecodeError, bytes it cannot decode as text (UnicodeDecodeError), or  *)
(* a CloudWatch Logs object.                                                 *)
LogLines ==
    { [kind |-> "badjson", logGroup |-> <<>>, logStream |-> "s", logEvents |-> <<>>],
      [kind |-> "badutf8", logGroup |-> <<>>, logStream |-> "s", logEvents |-> <<>>],
      LogObject(LogGroupOf(NameDev), <<LogEvent>>),
      LogObject(LogGroupOf(NameProd), <<LogEvent>>) }

(* lines that are drawn only as the single line of a payload *)
LogLinesAlone ==
    { LogObject(LogGroupOf(NameDev), <<>>),
      LogObject(ShortLogGroup, <<LogEvent>>) }

(* record["data"]: decodes is FALSE when base64 or gzip rejects it *)
LogData ==
    [decodes : {FALSE}, lines : {<<>>}]
    \cup [decodes : {TRUE}, lines : SeqsUpTo(LogLines, MaxLines)]
    \cup [decodes : {TRUE}, lines : {<<l>> : l \in LogLinesAlone}]

EmptyData == [decodes |-> TRUE, lines |-> <<>>]   \* base64 of b""

-----------------------------------------------------------------------------
(* transform_cloudwatch_lambda.py: functions *)

(* make_prefixes: the rds prefix, or RuntimeError *)
log_make_prefixes(environment) ==
    LET environment_suffixes ==
            [e \in {<<"production">>, <<"staging">>, <<"development">>} |->
                CASE e = <<"production">> -> <<"prod">>
                  [] e = <<"staging">> -> <<"stage">>
                  [] e = <<"development">> -> <<"dev">>]
    IN  IF environment = None
        THEN [raised |-> TRUE, rds_prefix |-> <<>>]
        ELSE IF environment \notin DOMAIN environment_suffixes
        THEN [raised |-> TRUE, rds_prefix |-> <<>>]
        ELSE [raised |-> FALSE,
              rds_prefix |-> <<"cg-aws-broker-">> \o environment_suffixes[environment]]

RdsArn(region, account_id, name) ==
    [service |-> "rds", region |-> region, account_id |-> account_id,
     kind |-> "db", name |-> name]

(* get_tags_from_arn, the function the lru_cache wraps.  world[<<"rds", n>>] *)
(* is what list_tags_for_resource answers now for the instance named n.      *)
log_fetch_tags(arn, world) ==
    IF arn.kind = "db"
    THEN IF world[<<"rds", arn.name>>].ok
         THEN IF "Organization GUID" \notin Keys(world[<<"rds", arn.name>>].tags)
              THEN {}
              ELSE world[<<"rds", arn.name>>].tags
         ELSE {}
    ELSE {}

(* get_tags_from_arn under @lru_cache(maxsize=256), keyed by (arn, client) *)
log_get_tags_from_arn(arn, client, cache, world) ==
    LET key == <<arn, client>>
    IN  IF CacheHas(cache, key)
        THEN [tags |-> CacheValue(cache, key), cache |-> CacheTouch(cache, key),
              fetched |-> <<>>]
        ELSE [tags |-> log_fetch_tags(arn, world),
              cache |-> CacheStore(cache, key, log_fetch_tags(arn, world)),
              fetched |-> IF arn.kind = "db"
                          THEN <<[api |-> "list_tags_for_resource", target |-> arn,
                                  answer |-> world[<<"rds", arn.name>>]]>>
                          ELSE <<>>]

(* mutant: the prefix test is left out *)
get_resource_tags_from_log_any_name(resource_name, client, region, account_id, rds_prefix, cache, world) ==
    IF resource_name # None
    THEN log_get_tags_from_arn(RdsArn(region, account_id, resource_name), client,
                               cache, world)
    ELSE [tags |-> {}, cache |-> cache, fetched |-> <<>>]

get_resource_tags_from_log(resource_name, client, region, account_id, rds_prefix, cache, world) ==
    IF resource_name # None /\ StartsWith(resource_name, rds_prefix)
    THEN log_get_tags_from_arn(RdsArn(region, account_id, resource_name), client,
                               cache, world)
    ELSE [tags |-> {}, cache |-> cache, fetched |-> <<>>]

(* process_logs: the entries of one line, or None (isNone) *)
process_logs(logs, client, region, account_id, rds_prefix, cache, world) ==
    IF Len(logs.logGroup) < 5
    THEN \* logs["logGroup"].split("/")[4] raises IndexError, caught at line 170
         [isNone |-> TRUE, logs |-> <<>>, cache |-> cache, fetched |-> <<>>]
    ELSE LET got == get_resource_tags_from_log(logs.logGroup[5], client, region,
                        account_id, rds_prefix, cache, world)
         IN  IF Cardinality(Keys(got.tags)) > 0
             THEN [isNone |-> FALSE,
                   logs |-> [k \in 1..Len(logs.logEvents) |->
                               [logGroup |-> logs.logGroup,
                                logStream |-> logs.logStream,
                                message |-> logs.logEvents[k].message,
                                timestamp |-> logs.logEvents[k].timestamp,
                                Tags |-> got.tags]],
                   cache |-> got.cache, fetched |-> got.fetched]
             ELSE [isNone |-> TRUE, logs |-> <<>>, cache |-> got.cache,
                   fetched |-> got.fetched]

(* mutant: the JSONDecodeError is not caught in the line loop *)
log_line_outcome_no_catch(line) ==
    IF line.kind \in {"badjson", "badutf8"} THEN "raise" ELSE "process"

(* lines 59-68: json.loads on a line.  A JSONDecodeError is caught and the   *)
(* line skipped; a UnicodeDecodeError is not a JSONDecodeError and leaves    *)
(* the loop.                                                                 *)
log_line_outcome(line) ==
    CASE line.kind = "badjson" -> "skip"
      [] line.kind = "badutf8" -> "raise"
      [] OTHER -> "process"

(* lines 58-68: the loop over the lines of one record.  st carries            *)
(* processed_logs, the cache, the fetches issued, and whether an exception    *)
(* other than JSONDecodeError left the loop.                                  *)
RECURSIVE log_lines(_, _, _, _, _, _, _)
log_lines(lines, client, region, account_id, rds_prefix, st, world) ==
    IF lines = <<>> \/ st.raised
    THEN st
    ELSE LET line == Head(lines)
             r == process_logs(line, client, region, account_id, rds_prefix,
                               st.cache, world)
         IN  CASE log_line_outcome(line) = "skip" ->
                    log_lines(Tail(lines), client, region, account_id, rds_prefix,
                              st, world)
               [] log_line_outcome(line) = "raise" ->
                    [st EXCEPT !.raised = TRUE]
               [] OTHER ->
                    log_lines(Tail(lines), client, region, account_id, rds_prefix,
                              [processed_logs |->
                                   IF ~r.isNone /\ r.logs # <<>>
                                   THEN st.processed_logs \o r.logs
                                   ELSE st.processed_logs,
                               cache |-> r.cache,
                               fetched |-> st.fetched \o r.fetched,
                               raised |-> FALSE],
                              world)

(* mutant: the failed record's payload is not kept *)
log_failed_record_without_data(record) ==
    [recordId |-> record.recordId, result |-> "ProcessingFailed", data |-> EmptyData]

(* lines 91-95 *)
log_failed_record(record) ==
    [recordId |-> record.recordId, result |-> "ProcessingFailed",
     data |-> record.data]

(* mutant: the dropped record is emitted with empty data, as the Ok record is *)
log_dropped_record_without_data(record) ==
    [recordId |-> record.recordId, result |-> "Dropped", data |-> EmptyData]

(* lines 81-85 *)
log_dropped_record(record) ==
    [recordId |-> record.recordId, result |-> "Dropped", data |-> record.data]

(* lines 52-96: one iteration of the loop over event["records"]: the output *)
(* record, processed_logs as the iteration left it, what it appended to      *)
(* s3_output, and whether the except of line 88 ran                          *)
log_record(record, client, region, account_id, rds_prefix, cache, world) ==
    LET st == log_lines(record.data.lines, client, region, account_id, rds_prefix,
                        [processed_logs |-> <<>>, cache |-> cache,
                         fetched |-> <<>>, raised |-> FALSE],
                        world)
    IN  IF ~record.data.decodes
        THEN [output_record |-> log_failed_record(record),
              processed_logs |-> <<>>, s3_output |-> <<>>, raised |-> TRUE,
              cache |-> cache, fetched |-> <<>>]
        ELSE IF st.raised
        THEN [output_record |-> log_failed_record(record),
              processed_logs |-> st.processed_logs, s3_output |-> <<>>,
              raised |-> TRUE, cache |-> st.cache, fetched |-> st.fetched]
        ELSE IF st.processed_logs # <<>>
        THEN [output_record |-> [recordId |-> record.recordId,
                                 result |-> "Ok",
                                 data |-> EmptyData],
              processed_logs |-> st.processed_logs,
              s3_output |-> st.processed_logs, raised |-> FALSE,
              cache |-> st.cache, fetched |-> st.fetched]
        ELSE [output_record |-> log_dropped_record(record),
              processed_logs |-> st.processed_logs, s3_output |-> <<>>,
              raised |-> FALSE, cache |-> st.cache, fetched |-> st.fetched]

(* lines 24-49: the configuration the handler needs before the loop *)
log_config_error(env) ==
    \/ env.AWS_REGION = None
    \/ env.S3_BUCKET_NAME = None
    \/ env.ACCOUNT_ID = None
    \/ log_make_prefixes(env.ENVIRONMENT).raised

(* mutant: the failure of the write is logged and not raised *)
after_put_swallowed(ok) == "returned"

(* lines 108-121: put_object succeeded and the handler returns, or failed   *)
(* and the except of line 118 raises the error again                        *)
after_put(ok) == IF ok THEN "returned" ELSE "raised"

(* line 107: the key of the bulk object *)
s3_key(now) == <<now \div 3600, now>>

-----------------------------------------------------------------------------
(* transform_lambda.py: inputs *)

default_keys_to_remove == {"metric_stream_name", "account_id", "region"}

EXPECTED_NAMESPACES == {"AWS/S3", "AWS/ES", "AWS/RDS"}

BucketDev == <<"development", "-cg-", "b">>
BucketProd == <<"cg-", "b">>
DomainDev == <<"cg-broker-", "dev-", "d">>
DomainProd == <<"cg-broker-", "prd-", "d">>

(* A metric-stream JSON object: its namespace, dimensions, metric_name and the *)
(* names of its other top-level keys                                           *)
MetricObject(namespace, dimensions, metric_name) ==
    [kind |-> "obj", namespace |-> namespace, dimensions |-> dimensions,
     metric_name |-> metric_name,
     keys |-> {"metric_stream_name", "account_id", "region", "value"}]

BadMetricLine ==
    [kind |-> "badjson", namespace |-> "", dimensions |-> {}, metric_name |-> "",
     keys |-> {}]

MetricLines ==
    { BadMetricLine,
      MetricObject("AWS/S3", {<<"BucketName", BucketDev>>, <<"ClientId", <<"c">>>>},
                   "BucketSizeBytes"),
      MetricObject("AWS/RDS", {<<"DBInstanceIdentifier", NameDev>>},
                   "FreeStorageSpace") }

(* lines that are drawn only as the single line of a payload *)
MetricLinesAlone ==
    { MetricObject("AWS/S3", {<<"BucketName", BucketProd>>}, "BucketSizeBytes"),
      MetricObject("AWS/S3", {}, "BucketSizeBytes"),
      MetricObject("AWS/ES", {<<"DomainName", DomainDev>>}, "CPUUtilization"),
      MetricObject("AWS/ES", {<<"DomainName", DomainProd>>}, "CPUUtilization"),
      MetricObject("AWS/RDS", {<<"DBInstanceIdentifier", NameDev>>},
                   "CPUUtilization"),
      MetricObject("AWS/RDS", {<<"DBInstanceIdentifier", NameProd>>},
                   "FreeStorageSpace"),
      MetricObject("AWS/EC2", {<<"InstanceId", <<"i">>>>}, "CPUUtilization") }

(* record["data"]: decodes is FALSE when base64 rejects it *)
MetricData ==
    [decodes : {FALSE}, lines : {<<>>}]
    \cup [decodes : {TRUE}, lines : SeqsUpTo(MetricLines, MaxLines)]
    \cup [decodes : {TRUE}, lines : {<<l>> : l \in MetricLinesAlone}]

-----------------------------------------------------------------------------
(* transform_lambda.py: functions *)

(* make_prefixes: line 80 builds a RuntimeError and does not raise it *)
metric_make_prefixes(environment) ==
    [s3_prefix |->
        IF environment \in {<<"development">>, <<"staging">>}
        THEN environment \o <<"-cg-">>
        ELSE <<"cg-">>,
     domain_prefix |->
        <<"cg-broker-">>
        \o (IF environment = <<"production">> THEN <<"prd-">> ELSE <<>>)
        \o (IF environment = <<"staging">> THEN <<"stg-">> ELSE <<>>)
        \o (IF environment = <<"development">> THEN <<"dev-">> ELSE <<>>),
     rds_prefix |->
        <<"cg-aws-broker-">>
        \o (IF environment = <<"production">> THEN <<"prod">> ELSE <<>>)
        \o (IF environment = <<"staging">> THEN <<"stage">> ELSE <<>>)
        \o (IF environment = <<"development">> THEN <<"dev">> ELSE <<>>)]

EsArn(region, account_id, name) ==
    [service |-> "es", region |-> region, account_id |-> account_id,
     kind |-> "domain", name |-> name]

(* get_rds_description under @lru_cache: AllocatedStorage, or None when      *)
(* describe_db_instances fails.  c carries the three caches and the calls.   *)
get_rds_description(rds_client, db_name, c, world) ==
    LET key == <<rds_client, db_name>>
        size == IF world[<<"size", db_name>>].ok THEN "100" ELSE "None"
    IN  IF CacheHas(c.desc_cache, key)
        THEN [size |-> CacheValue(c.desc_cache, key),
              c |-> [c EXCEPT !.desc_cache = CacheTouch(c.desc_cache, key)]]
        ELSE [size |-> size,
              c |-> [c EXCEPT !.desc_cache = CacheStore(c.desc_cache, key, size),
                              !.fetched = Append(c.fetched,
                                   [api |-> "describe_db_instances",
                                    target |-> db_name,
                                    answer |-> world[<<"size", db_name>>]])]]

(* get_tags_from_name under @lru_cache.  Only NoSuchTagSet is caught inside: *)
(* any other error leaves the function, and nothing is stored.               *)
get_tags_from_name(name, type, client, c, world) ==
    LET key == <<name, type, client>>
        answer == world[<<"s3", name>>]
        call == [api |-> "get_bucket_tagging", target |-> name, answer |-> answer]
    IN  IF CacheHas(c.name_cache, key)
        THEN [raised |-> FALSE, tags |-> CacheValue(c.name_cache, key),
              c |-> [c EXCEPT !.name_cache = CacheTouch(c.name_cache, key)]]
        ELSE IF type # "S3"
        THEN [raised |-> FALSE, tags |-> {},
              c |-> [c EXCEPT !.name_cache = CacheStore(c.name_cache, key, {})]]
        ELSE IF answer.ok \/ answer.error = "NoSuchTagSet"
        THEN [raised |-> FALSE, tags |-> answer.tags,
              c |-> [c EXCEPT !.name_cache =
                                  CacheStore(c.name_cache, key, answer.tags),
                              !.fetched = Append(c.fetched, call)]]
        ELSE [raised |-> TRUE, tags |-> {},
              c |-> [c EXCEPT !.fetched = Append(c.fetched, call)]]

(* mutant: the Organization GUID policy is left out *)
metric_fetch_tags_without_policy(arn, world) ==
    IF arn.kind = "db"
    THEN IF world[<<"rds", arn.name>>].ok THEN world[<<"rds", arn.name>>].tags ELSE {}
    ELSE IF world[<<"es", arn.name>>].ok THEN world[<<"es", arn.name>>].tags ELSE {}

(* get_tags_from_arn, the function the lru_cache wraps *)
metric_fetch_tags(arn, world) ==
    LET domain == IF arn.kind = "domain" /\ world[<<"es", arn.name>>].ok
                  THEN world[<<"es", arn.name>>].tags
                  ELSE {}
    IN  IF arn.kind = "db"
        THEN IF world[<<"rds", arn.name>>].ok
             THEN IF "Organization GUID" \notin Keys(world[<<"rds", arn.name>>].tags)
                  THEN {}
                  ELSE world[<<"rds", arn.name>>].tags
             ELSE domain
        ELSE domain

(* get_tags_from_arn under @lru_cache(maxsize=256), keyed by (arn, client) *)
metric_get_tags_from_arn(arn, client, c, world) ==
    LET key == <<arn, client>>
        call == [api |-> IF arn.kind = "db" THEN "list_tags_for_resource"
                         ELSE "list_tags",
                 target |-> arn,
                 answer |-> world[<<IF arn.kind = "db" THEN "rds" ELSE "es",
                                    arn.name>>]]
    IN  IF CacheHas(c.arn_cache, key)
        THEN [tags |-> CacheValue(c.arn_cache, key),
              c |-> [c EXCEPT !.arn_cache = CacheTouch(c.arn_cache, key)]]
        ELSE [tags |-> metric_fetch_tags(arn, world),
              c |-> [c EXCEPT !.arn_cache =
                                  CacheStore(c.arn_cache, key,
                                             metric_fetch_tags(arn, world)),
                              !.fetched = Append(c.fetched, call)]]

(* mutant: db_size is merged into the cached mapping itself, not a copy *)
get_resource_tags_from_metric_in_place(metric, x, c, world) ==
    LET bucket_name == Get(metric.dimensions, "BucketName")
        domain_name == Get(metric.dimensions, "DomainName")
        db_name == Get(metric.dimensions, "DBInstanceIdentifier")
        s3 == get_tags_from_name(bucket_name, "S3", x.s3_client, c, world)
        es == metric_get_tags_from_arn(
                  EsArn(x.region, x.account_id, domain_name), x.es_client, c, world)
        rds == metric_get_tags_from_arn(
                   RdsArn(x.region, x.account_id, db_name), x.rds_client, c, world)
        desc == get_rds_description(x.rds_client, db_name, rds.c, world)
    IN  CASE metric.namespace = "AWS/S3" ->
               IF bucket_name = None
               THEN [tags |-> {}, c |-> c]    \* None.startswith: AttributeError
               ELSE IF StartsWith(bucket_name, x.s3_prefix)
               THEN [tags |-> IF s3.raised THEN {} ELSE s3.tags, c |-> s3.c]
               ELSE [tags |-> {}, c |-> c]
          [] metric.namespace = "AWS/ES" ->
               IF domain_name = None
               THEN [tags |-> {}, c |-> c]    \* None.startswith: AttributeError
               ELSE IF StartsWith(domain_name, x.domain_prefix)
               THEN [tags |-> es.tags, c |-> es.c]
               ELSE [tags |-> {}, c |-> c]
          [] metric.namespace = "AWS/RDS" ->
               IF db_name # None /\ StartsWith(db_name, x.rds_prefix)
               THEN IF rds.tags # {} /\ metric.metric_name = "FreeStorageSpace"
                    THEN [tags |-> {kv \in rds.tags : kv[1] # "db_size"}
                                   \cup {<<"db_size", desc.size>>},
                          c |-> [desc.c EXCEPT !.arn_cache =
                                  [k \in 1..Len(desc.c.arn_cache) |->
                                     IF desc.c.arn_cache[k].key =
                                           <<RdsArn(x.region, x.account_id, db_name),
                                             x.rds_client>>
                                     THEN [key |-> desc.c.arn_cache[k].key,
                                           value |-> rds.tags
                                               \cup {<<"db_size", desc.size>>}]
                                     ELSE desc.c.arn_cache[k]]]]
                    ELSE [tags |-> rds.tags, c |-> rds.c]
               ELSE [tags |-> {}, c |-> c]
          [] OTHER -> [tags |-> {}, c |-> c]

(* mutant: the description is looked up whether or not the database has tags *)
get_resource_tags_from_metric_always_sized(metric, x, c, world) ==
    LET bucket_name == Get(metric.dimensions, "BucketName")
        domain_name == Get(metric.dimensions, "DomainName")
        db_name == Get(metric.dimensions, "DBInstanceIdentifier")
        s3 == get_tags_from_name(bucket_name, "S3", x.s3_client, c, world)
        es == metric_get_tags_from_arn(
                  EsArn(x.region, x.account_id, domain_name), x.es_client, c, world)
        rds == metric_get_tags_from_arn(
                   RdsArn(x.region, x.account_id, db_name), x.rds_client, c, world)
        desc == get_rds_description(x.rds_client, db_name, rds.c, world)
    IN  CASE metric.namespace = "AWS/S3" ->
               IF bucket_name = None
               THEN [tags |-> {}, c |-> c]    \* None.startswith: AttributeError
               ELSE IF StartsWith(bucket_name, x.s3_prefix)
               THEN [tags |-> IF s3.raised THEN {} ELSE s3.tags, c |-> s3.c]
               ELSE [tags |-> {}, c |-> c]
          [] metric.namespace = "AWS/ES" ->
               IF domain_name = None
               THEN [tags |-> {}, c |-> c]    \* None.startswith: AttributeError
               ELSE IF StartsWith(domain_name, x.domain_prefix)
               THEN [tags |-> es.tags, c |-> es.c]
               ELSE [tags |-> {}, c |-> c]
          [] metric.namespace = "AWS/RDS" ->
               IF db_name # None /\ StartsWith(db_name, x.rds_prefix)
               THEN IF metric.metric_name = "FreeStorageSpace"
                    THEN [tags |-> {kv \in rds.tags : kv[1] # "db_size"}
                                   \cup {<<"db_size", desc.size>>},
                          c |-> desc.c]
                    ELSE [tags |-> rds.tags, c |-> rds.c]
               ELSE [tags |-> {}, c |-> c]
          [] OTHER -> [tags |-> {}, c |-> c]

(* get_resource_tags_from_metric; x holds region, account_id, the clients    *)
(* and the prefixes                                                          *)
get_resource_tags_from_metric(metric, x, c, world) ==
    LET bucket_name == Get(metric.dimensions, "BucketName")
        domain_name == Get(metric.dimensions, "DomainName")
        db_name == Get(metric.dimensions, "DBInstanceIdentifier")
        s3 == get_tags_from_name(bucket_name, "S3", x.s3_client, c, world)
        es == metric_get_tags_from_arn(
                  EsArn(x.region, x.account_id, domain_name), x.es_client, c, world)
        rds == metric_get_tags_from_arn(
                   RdsArn(x.region, x.account_id, db_name), x.rds_client, c, world)
        desc == get_rds_description(x.rds_client, db_name, rds.c, world)
    IN  CASE metric.namespace = "AWS/S3" ->
               IF bucket_name = None
               THEN [tags |-> {}, c |-> c]    \* None.startswith: AttributeError
               ELSE IF StartsWith(bucket_name, x.s3_prefix)
               THEN [tags |-> IF s3.raised THEN {} ELSE s3.tags, c |-> s3.c]
               ELSE [tags |-> {}, c |-> c]
          [] metric.namespace = "AWS/ES" ->
               IF domain_name = None
               THEN [tags |-> {}, c |-> c]    \* None.startswith: AttributeError
               ELSE IF StartsWith(domain_name, x.domain_prefix)
               THEN [tags |-> es.tags, c |-> es.c]
               ELSE [tags |-> {}, c |-> c]
          [] metric.namespace = "AWS/RDS" ->
               IF db_name # None /\ StartsWith(db_name, x.rds_prefix)
               THEN IF rds.tags # {} /\ metric.metric_name = "FreeStorageSpace"
                    THEN [tags |-> {kv \in rds.tags : kv[1] # "db_size"}
                                   \cup {<<"db_size", desc.size>>},
                          c |-> desc.c]
                    ELSE [tags |-> rds.tags, c |-> rds.c]
               ELSE [tags |-> {}, c |-> c]
          [] OTHER -> [tags |-> {}, c |-> c]

(* mutant: the metric is kept whether or not it has tags *)
process_metric_keeps_untagged(metric, x, c, world) ==
    LET got == get_resource_tags_from_metric(metric, x, c, world)
    IN  IF metric.namespace \notin EXPECTED_NAMESPACES
        THEN [isNone |-> TRUE, metric |-> metric, c |-> c]
        ELSE [isNone |-> FALSE,
              metric |-> [kind |-> "obj", namespace |-> metric.namespace,
                          dimensions |-> metric.dimensions,
                          metric_name |-> metric.metric_name,
                          keys |-> metric.keys, Tags |-> got.tags],
              c |-> got.c]

(* process_metric: the metric with its Tags, or None (isNone) *)
process_metric(metric, x, c, world) ==
    LET got == get_resource_tags_from_metric(metric, x, c, world)
    IN  IF metric.namespace \notin EXPECTED_NAMESPACES
        THEN [isNone |-> TRUE, metric |-> metric, c |-> c]
        ELSE IF Cardinality(Keys(got.tags)) > 0
        THEN [isNone |-> FALSE,
              metric |-> [kind |-> "obj", namespace |-> metric.namespace,
                          dimensions |-> metric.dimensions,
                          metric_name |-> metric.metric_name,
                          keys |-> metric.keys, Tags |-> got.tags],
              c |-> got.c]
        ELSE [isNone |-> TRUE, metric |-> metric, c |-> got.c]

(* lines 26-43: the loop over the lines of one record.  st carries            *)
(* processed_metrics, the caches and calls (c), and whether an exception left *)
(* the loop.                                                                  *)
RECURSIVE metric_lines(_, _, _, _)
metric_lines(lines, x, st, world) ==
    IF lines = <<>> \/ st.raised
    THEN st
    ELSE LET line == Head(lines)
             metric == [line EXCEPT !.keys = @ \ default_keys_to_remove]
             r == process_metric(metric, x, st.c, world)
         IN  IF line.kind = "badjson"
             THEN [st EXCEPT !.raised = TRUE]     \* json.loads raises
             ELSE metric_lines(Tail(lines), x,
                    [processed_metrics |->
                        IF r.isNone
                        THEN st.processed_metrics
                        ELSE Append(st.processed_metrics,
                                 [r.metric EXCEPT !.dimensions =
                                     {kv \in @ : kv[1] # "ClientId"}]),
                     c |-> r.c,
                     raised |-> FALSE],
                    world)

(* lines 23-73: one iteration of the loop over event["records"]; raised when *)
(* an exception reaches the except of line 71, which raises it again         *)
metric_record(record, x, c, world) ==
    LET st == metric_lines(record.data.lines, x,
                           [processed_metrics |-> <<>>, c |-> c, raised |-> FALSE],
                           world)
    IN  IF ~record.data.decodes
        THEN [raised |-> TRUE, output_record |-> <<>>, processed_metrics |-> <<>>,
              c |-> c]
        ELSE IF st.raised
        THEN [raised |-> TRUE, output_record |-> <<>>,
              processed_metrics |-> st.processed_metrics, c |-> st.c]
        ELSE IF st.processed_metrics # <<>>
        THEN [raised |-> FALSE,
              output_record |-> [recordId |-> record.recordId, result |-> "Ok",
                                 data |-> [decodes |-> TRUE,
                                           lines |-> st.processed_metrics]],
              processed_metrics |-> st.processed_metrics, c |-> st.c]
        ELSE [raised |-> FALSE,
              output_record |-> [recordId |-> record.recordId, result |-> "Dropped",
                                 data |-> record.data],
              processed_metrics |-> st.processed_metrics, c |-> st.c]

-----------------------------------------------------------------------------
(* add_cloudwatch_subscrition.py *)

Absent == [kind |-> "absent"]     \* the key is not in the dict
Null == [kind |-> "null"]         \* the key is there and its value is null

GroupNameOf(name) == <<"/aws/rds/instance/">> \o name \o <<"/postgresql">>

LogGroupNames ==
    {Absent, Null}
    \cup {[kind |-> "str", value |-> v] :
            v \in {GroupNameOf(NameDev), GroupNameOf(NameProd),
                   <<"/aws/lambda/", "f">>}}

RequestParameters ==
    {Absent, Null} \cup [kind : {"obj"}, logGroupName : LogGroupNames]

(* The control-plane event {detail: {requestParameters: {logGroupName}}} *)
SubEventsIn ==
    [detail : {Absent, Null} \cup [kind : {"obj"},
                                   requestParameters : RequestParameters]]

SubEnvirons ==
    [ENVIRONMENT : Environments, FIREHOSE_ARN : {None, <<"firehose">>},
     ROLE_ARN : {None, <<"role">>}]

sub_make_prefixes(environment) ==
    LET environment_suffixes ==
            [e \in {<<"production">>, <<"staging">>, <<"development">>} |->
                CASE e = <<"production">> -> <<"prod">>
                  [] e = <<"staging">> -> <<"stage">>
                  [] e = <<"development">> -> <<"dev">>]
    IN  IF environment = None
        THEN [raised |-> TRUE, rds_prefix |-> <<>>]
        ELSE IF environment \notin DOMAIN environment_suffixes
        THEN [raised |-> TRUE, rds_prefix |-> <<>>]
        ELSE [raised |-> FALSE,
              rds_prefix |-> <<"cg-aws-broker-">> \o environment_suffixes[environment]]

(* dict.get(key, {}): the default only when the key is absent *)
GetOrEmpty(value) == IF value.kind = "absent" THEN [kind |-> "obj"] ELSE value

(* lambda_handler: whether it raised, and its put_subscription_filter calls. *)
(* answer is what put_subscription_filter does if it is called.              *)
sub_lambda_handler(env, ev, answer) ==
    LET rds_prefix == sub_make_prefixes(env.ENVIRONMENT).rds_prefix
        detail == GetOrEmpty(ev.detail)
        params == IF "requestParameters" \in DOMAIN detail
                  THEN GetOrEmpty(detail.requestParameters)
                  ELSE [kind |-> "obj"]
        log_group_name == IF "logGroupName" \in DOMAIN params
                          THEN params.logGroupName
                          ELSE Absent
        call == [logGroupName |-> log_group_name.value,
                 filterName |-> "firehose_for_opensearch", filterPattern |-> "",
                 destinationArn |-> env.FIREHOSE_ARN, roleArn |-> env.ROLE_ARN]
    IN  IF env.FIREHOSE_ARN = None \/ env.ROLE_ARN = None   \* KeyError
        THEN [raised |-> TRUE, calls |-> <<>>]
        ELSE IF sub_make_prefixes(env.ENVIRONMENT).raised
        THEN [raised |-> TRUE, calls |-> <<>>]
        ELSE IF detail.kind = "null" \/ params.kind = "null"
        THEN [raised |-> TRUE, calls |-> <<>>]      \* None.get: AttributeError
        ELSE IF /\ log_group_name.kind = "str"
                /\ StartsWith(log_group_name.value,
                              <<"/aws/rds/instance/">> \o rds_prefix)
        THEN [raised |-> answer # "ok", calls |-> <<call>>]
        ELSE [raised |-> FALSE, calls |-> <<>>]

-----------------------------------------------------------------------------
(* State machine *)

LogEnvirons ==
    [ENVIRONMENT : Environments, AWS_REGION : {None, Region},
     S3_BUCKET_NAME : {None, Bucket}, ACCOUNT_ID : {None, Account}]

MetricEnvirons ==
    [ENVIRONMENT : Environments, AWS_REGION : {None, Region},
     ACCOUNT_ID : {None, Account}]

(* the records a loop may reach next: their ids are unique within the batch *)
NextRecords(data) ==
    {r \in [recordId : RecordIds, data : data] :
        \A k \in 1..Len(event.records) : event.records[k].recordId # r.recordId}

(* the resources a record names, and the answers AWS may give for them now *)
LogWorlds(record) ==
    [{<<"rds", l.logGroup[5]>> :
        l \in {record.data.lines[k] : k \in 1..Len(record.data.lines)}
              \cap {l \in LogLines \cup LogLinesAlone : Len(l.logGroup) >= 5}}
     -> Responses({"ClientError"})]

MetricTargets(record, namespace, key) ==
    {Get(l.dimensions, key) :
        l \in {m \in {record.data.lines[k] : k \in 1..Len(record.data.lines)} :
                  m.namespace = namespace /\ Get(m.dimensions, key) # None}}

MetricWorlds(record) ==
    {s @@ e @@ r @@ d :
        s \in [{<<"s3", n>> : n \in MetricTargets(record, "AWS/S3", "BucketName")}
               -> Responses({"NoSuchTagSet", "ClientError"})],
        e \in [{<<"es", n>> : n \in MetricTargets(record, "AWS/ES", "DomainName")}
               -> Responses({"ClientError"})],
        r \in [{<<"rds", n>> :
                  n \in MetricTargets(record, "AWS/RDS", "DBInstanceIdentifier")}
               -> Responses({"ClientError"})],
        d \in [{<<"size", n>> :
                  n \in MetricTargets(record, "AWS/RDS", "DBInstanceIdentifier")}
               -> [ok : BOOLEAN]]}

Init ==
    /\ fn = "none"
    /\ pc = "idle"
    /\ outcome = "none"
    /\ returned = <<>>
    /\ environ = [ENVIRONMENT |-> None]
    /\ event = [records |-> <<>>]
    /\ batch_size = 0
    /\ output_records = <<>>
    /\ s3_output = <<>>
    /\ trail = <<>>
    /\ arn_cache = <<>>
    /\ name_cache = <<>>
    /\ desc_cache = <<>>
    /\ fetched = <<>>
    /\ puts = <<>>
    /\ filters = <<>>
    /\ bucket_objects = <<>>
    /\ clock = 0
    /\ invocation = 0

(* what every invocation starts from *)
Enter(handler) ==
    /\ fn' = handler
    /\ invocation' = invocation + 1
    /\ returned' = <<>>
    /\ output_records' = <<>>
    /\ s3_output' = <<>>
    /\ trail' = <<>>
    /\ fetched' = <<>>
    /\ puts' = <<>>
    /\ filters' = <<>>

(* transform_cloudwatch_lambda.lambda_handler, lines 21-49 *)
LogStart ==
    /\ \E env \in LogEnvirons, n \in 0..MaxRecords :
        /\ environ' = env
        /\ event' = [records |-> <<>>]
        /\ batch_size' = n
        /\ IF log_config_error(env)
           THEN /\ pc' = "done"
                /\ outcome' = "returned"
           ELSE /\ pc' = "loop"
                /\ outcome' = "none"
    /\ Enter("log")
    /\ UNCHANGED <<arn_cache, name_cache, desc_cache, bucket_objects, clock>>

(* the log handler is invoked in a new process *)
LogInvoke == pc = "idle" /\ LogStart

(* the log handler is invoked again in the process that ran it before *)
LogReinvoke ==
    /\ pc = "done"
    /\ fn = "log"
    /\ invocation < MaxInvocations
    /\ LogStart

(* transform_cloudwatch_lambda.lambda_handler, lines 51-96: one record *)
LogRecord ==
    /\ fn = "log"
    /\ pc = "loop"
    /\ Len(event.records) < batch_size
    /\ \E record \in NextRecords(LogData) : \E world \in LogWorlds(record) :
        \E r \in {log_record(record, <<"rds", invocation>>,
                              environ.AWS_REGION, environ.ACCOUNT_ID,
                              log_make_prefixes(environ.ENVIRONMENT).rds_prefix,
                              arn_cache, world)} :
            /\ event' = [records |-> Append(event.records, record)]
            /\ output_records' = Append(output_records, r.output_record)
            /\ s3_output' = s3_output \o r.s3_output
            /\ trail' = Append(trail, [augmented |-> r.processed_logs,
                                       raised |-> r.raised])
            /\ arn_cache' = r.cache
            /\ fetched' = fetched \o r.fetched
    /\ UNCHANGED <<fn, pc, outcome, returned, environ, batch_size, name_cache,
                   desc_cache, puts, filters, bucket_objects, clock, invocation>>

(* transform_cloudwatch_lambda.lambda_handler, lines 98-121 *)
LogFinish ==
    /\ fn = "log"
    /\ pc = "loop"
    /\ Len(event.records) = batch_size
    /\ pc' = "done"
    /\ IF s3_output # <<>>
       THEN \E now \in clock..MaxClock, ok \in BOOLEAN :
            /\ clock' = now
            /\ puts' = Append(puts, [Bucket |-> environ.S3_BUCKET_NAME,
                                     Key |-> s3_key(now), Body |-> s3_output,
                                     ok |-> ok])
            /\ bucket_objects' =
                  IF ok
                  THEN Append(bucket_objects,
                              [Key |-> s3_key(now), invocation |-> invocation])
                  ELSE bucket_objects
            /\ outcome' = after_put(ok)
            /\ returned' = IF after_put(ok) = "returned"
                           THEN output_records
                           ELSE returned
       ELSE /\ outcome' = "returned"
            /\ returned' = output_records
            /\ UNCHANGED <<puts, bucket_objects, clock>>
    /\ UNCHANGED <<fn, environ, event, batch_size, output_records, s3_output,
                   trail, arn_cache, name_cache, desc_cache, fetched, filters,
                   invocation>>

(* transform_lambda.lambda_handler, lines 15-21; boto3.client raises without *)
(* a region                                                                 *)
MetricInvoke ==
    /\ pc = "idle"
    /\ \E env \in MetricEnvirons, n \in 0..MaxRecords :
        /\ environ' = env
        /\ event' = [records |-> <<>>]
        /\ batch_size' = n
        /\ IF env.AWS_REGION = None
           THEN /\ pc' = "done"
                /\ outcome' = "raised"
           ELSE /\ pc' = "loop"
                /\ outcome' = "none"
    /\ Enter("metric")
    /\ UNCHANGED <<arn_cache, name_cache, desc_cache, bucket_objects, clock>>

MetricContext ==
    [region |-> environ.AWS_REGION, account_id |-> environ.ACCOUNT_ID,
     s3_client |-> <<"s3", invocation>>, es_client |-> <<"es", invocation>>,
     rds_client |-> <<"rds", invocation>>,
     s3_prefix |-> metric_make_prefixes(environ.ENVIRONMENT).s3_prefix,
     domain_prefix |-> metric_make_prefixes(environ.ENVIRONMENT).domain_prefix,
     rds_prefix |-> metric_make_prefixes(environ.ENVIRONMENT).rds_prefix]

(* transform_lambda.lambda_handler, lines 22-73: one record *)
MetricRecord ==
    /\ fn = "metric"
    /\ pc = "loop"
    /\ Len(event.records) < batch_size
    /\ \E record \in NextRecords(MetricData) : \E world \in MetricWorlds(record) :
        \E r \in {metric_record(record, MetricContext,
                        [arn_cache |-> arn_cache, name_cache |-> name_cache,
                         desc_cache |-> desc_cache, fetched |-> fetched],
                        world)} :
            /\ event' = [records |-> Append(event.records, record)]
            /\ trail' = Append(trail, [augmented |-> r.processed_metrics,
                                       raised |-> r.raised])
            /\ arn_cache' = r.c.arn_cache
            /\ name_cache' = r.c.name_cache
            /\ desc_cache' = r.c.desc_cache
            /\ fetched' = r.c.fetched
            /\ IF r.raised
               THEN /\ pc' = "done"
                    /\ outcome' = "raised"
                    /\ UNCHANGED output_records
               ELSE /\ output_records' = Append(output_records, r.output_record)
                    /\ UNCHANGED <<pc, outcome>>
    /\ UNCHANGED <<fn, returned, environ, batch_size, s3_output, puts, filters,
                   bucket_objects, clock, invocation>>

(* transform_lambda.lambda_handler, line 74 *)
MetricReturn ==
    /\ fn = "metric"
    /\ pc = "loop"
    /\ Len(event.records) = batch_size
    /\ pc' = "done"
    /\ outcome' = "returned"
    /\ returned' = output_records
    /\ UNCHANGED <<fn, environ, event, batch_size, output_records, s3_output,
                   trail, arn_cache, name_cache, desc_cache, fetched, puts,
                   filters, bucket_objects, clock, invocation>>

(* add_cloudwatch_subscrition.lambda_handler *)
SubInvoke ==
    /\ pc = "idle"
    /\ \E env \in SubEnvirons, ev \in SubEventsIn,
          answer \in {"ok", "ResourceAlreadyExistsException", "ClientError"} :
        \E r \in {sub_lambda_handler(env, ev, answer)} :
            /\ environ' = env
            /\ event' = ev
            /\ filters' = r.calls
            /\ outcome' = IF r.raised THEN "raised" ELSE "returned"
    /\ pc' = "done"
    /\ fn' = "sub"
    /\ invocation' = invocation + 1
    /\ UNCHANGED <<returned, batch_size, output_records, s3_output, trail,
                   arn_cache, name_cache, desc_cache, fetched, puts,
                   bucket_objects, clock>>

Next ==
    \/ LogInvoke
    \/ LogRecord
    \/ LogFinish
    \/ MetricInvoke
    \/ MetricRecord
    \/ MetricReturn
    \/ SubInvoke

Spec == Init /\ [][Next]_vars

(* the log handler alone, invoked repeatedly in one process *)
NextWarm == LogInvoke \/ LogReinvoke \/ LogRecord \/ LogFinish

SpecWarm == Init /\ [][NextWarm]_vars

-----------------------------------------------------------------------------
(* Properties *)

Transforming == fn \in {"log", "metric"}

Returned == pc = "done" /\ outcome = "returned"

Range(seq) == {seq[k] : k \in 1..Len(seq)}

RECURSIVE Flatten(_)
Flatten(seqs) == IF seqs = <<>> THEN <<>> ELSE Head(seqs) \o Flatten(Tail(seqs))

(* C1: whenever a transform handler returns, its batch has one record per    *)
(* input record, in input order, the k-th carrying the k-th input recordId.  *)
C1_OneOutputPerInput ==
    (Transforming /\ Returned) =>
        /\ Len(returned) = batch_size
        /\ Len(event.records) = batch_size
        /\ \A k \in 1..batch_size :
              returned[k].recordId = event.records[k].recordId

(* C2: in both transform handlers, a record handled without an exception is  *)
(* Ok exactly when at least one of its events was augmented, each augmented  *)
(* event carrying a non-empty tag mapping, and Dropped exactly when none was.*)
C2_OkIffAugmented ==
    Transforming =>
        \A k \in 1..Len(trail) :
            ~trail[k].raised =>
                /\ k <= Len(output_records)
                /\ output_records[k].result = "Ok" <=> trail[k].augmented # <<>>
                /\ output_records[k].result = "Dropped" <=> trail[k].augmented = <<>>
                /\ \A e \in Range(trail[k].augmented) : e.Tags # {}

C2_Witness ==
    /\ Transforming
    /\ Returned
    /\ Len(trail) = 2
    /\ output_records[1].result = "Dropped"
    /\ output_records[2].result = "Ok"
    /\ event.records[1].data.lines # <<>>

(* the settings the claim requires of an invocation *)
ConfigurationMissing ==
    \/ environ.ENVIRONMENT \notin {<<"development">>, <<"staging">>, <<"production">>}
    \/ environ.AWS_REGION = None
    \/ environ.ACCOUNT_ID = None
    \/ fn = "log" /\ environ.S3_BUCKET_NAME = None

(* the record whose handling raised is emitted ProcessingFailed with its     *)
(* data unchanged                                                            *)
FailedInPlace(k) ==
    /\ k <= Len(output_records)
    /\ output_records[k] = [recordId |-> event.records[k].recordId,
                            result |-> "ProcessingFailed",
                            data |-> event.records[k].data]

C4_ConfigurationFailsFast ==
    (Transforming /\ ConfigurationMissing) =>
        /\ event.records = <<>>
        /\ trail = <<>>
        /\ outcome # "returned"

(* C5: in the log handler a returned batch with an Ok record comes with      *)
(* exactly one bulk write, which succeeded, was issued after the last record *)
(* was handled, and holds exactly the augmented events of the Ok records in  *)
(* input order; a failed write raises and nothing is returned.               *)
C5_OneBulkWrite ==
    fn = "log" =>
        /\ puts # <<>> =>
              /\ Len(puts) = 1
              /\ pc = "done"
              /\ Len(event.records) = batch_size
              /\ puts[1].Body =
                    Flatten([k \in 1..Len(trail) |->
                                IF output_records[k].result = "Ok"
                                THEN trail[k].augmented
                                ELSE <<>>])
              /\ ~puts[1].ok => outcome = "raised" /\ returned = <<>>
        /\ (Returned /\ \E r \in Range(returned) : r.result = "Ok") =>
              /\ Len(puts) = 1
              /\ puts[1].ok

C5_Witness ==
    /\ fn = "log"
    /\ Returned
    /\ Len(returned) = 2
    /\ returned[1].result = "Ok"
    /\ returned[2].result = "ProcessingFailed"
    /\ trail[2].augmented # <<>>
    /\ Len(puts) = 1
    /\ puts[1].ok
    /\ puts[1].Body = trail[1].augmented

(* C6: two bulk objects written by distinct invocations never share a key. *)
C6_KeysNeverCollide ==
    \A a, b \in 1..Len(bucket_objects) :
        a # b => bucket_objects[a].Key # bucket_objects[b].Key

(* C7, as claimed: in the log handler a record handled without an exception  *)
(* that yields no augmented event is Dropped with an empty data payload, and *)
(* no bulk write is issued when no record yields an augmented event.         *)
C7_DroppedWithEmptyData ==
    fn = "log" =>
        /\ \A k \in 1..Len(trail) :
              (~trail[k].raised /\ trail[k].augmented = <<>>) =>
                  /\ output_records[k].result = "Dropped"
                  /\ output_records[k].data = EmptyData
        /\ (\A k \in 1..Len(trail) : trail[k].augmented = <<>>) => puts = <<>>

(* C7, amended: such a record is Dropped with its original data payload      *)
(* unchanged, and no bulk write is issued when no record yields an augmented *)
(* event.                                                                    *)
C7_DroppedWithOriginalData ==
    fn = "log" =>
        /\ \A k \in 1..Len(trail) :
              (~trail[k].raised /\ trail[k].augmented = <<>>) =>
                  /\ output_records[k].result = "Dropped"
                  /\ output_records[k].data = event.records[k].data
        /\ (\A k \in 1..Len(trail) : trail[k].augmented = <<>>) => puts = <<>>

(* a record of one in-scope event whose tags were fetched and came back empty *)
C7_Witness ==
    /\ fn = "log"
    /\ Returned
    /\ Len(returned) = 1
    /\ returned[1].result = "Dropped"
    /\ returned[1].data.lines # <<>>
    /\ Len(fetched) = 1
    /\ puts = <<>>

(* the resource a metric names, by its namespace *)
MetricResourceName(metric) ==
    CASE metric.namespace = "AWS/S3" -> Get(metric.dimensions, "BucketName")
      [] metric.namespace = "AWS/ES" -> Get(metric.dimensions, "DomainName")
      [] metric.namespace = "AWS/RDS" -> Get(metric.dimensions, "DBInstanceIdentifier")
      [] OTHER -> None

(* the environment-scoped prefix of a namespace in this invocation *)
MetricPrefix(namespace) ==
    CASE namespace = "AWS/S3" -> metric_make_prefixes(environ.ENVIRONMENT).s3_prefix
      [] namespace = "AWS/ES" -> metric_make_prefixes(environ.ENVIRONMENT).domain_prefix
      [] OTHER -> metric_make_prefixes(environ.ENVIRONMENT).rds_prefix

(* an event that names a resource outside the environment's prefix *)
OutOfScope(line) ==
    /\ line.kind = "obj"
    /\ IF fn = "log"
       THEN /\ Len(line.logGroup) >= 5
            /\ ~StartsWith(line.logGroup[5],
                           log_make_prefixes(environ.ENVIRONMENT).rds_prefix)
       ELSE /\ line.namespace \in EXPECTED_NAMESPACES
            /\ MetricResourceName(line) # None
            /\ ~StartsWith(MetricResourceName(line), MetricPrefix(line.namespace))

(* the resource name an AWS read call was issued for *)
CallName(call) ==
    IF call.api \in {"list_tags_for_resource", "list_tags"}
    THEN call.target.name
    ELSE call.target

(* the resource name an augmented event carries *)
EventName(e) == IF fn = "log" THEN e.logGroup[5] ELSE MetricResourceName(e)

(* C8: in both pipelines an event whose resource name does not start with    *)
(* the environment-scoped prefix of its type causes no tag fetch and is not  *)
(* augmented, and a metric record of only such events is Dropped with its    *)
(* data unchanged.                                                           *)
C8_OutOfScopeContributesNothing ==
    Transforming =>
        \A k \in 1..Len(trail) :
            \A line \in Range(event.records[k].data.lines) :
                OutOfScope(line) =>
                    /\ \A call \in Range(fetched) :
                          CallName(call) # EventName(line)
                    /\ \A j \in 1..Len(trail) :
                          \A e \in Range(trail[j].augmented) :
                              EventName(e) # EventName(line)
                    /\ (\A other \in Range(event.records[k].data.lines) :
                            OutOfScope(other)) =>
                          /\ ~trail[k].raised
                          /\ output_records[k] =
                                [recordId |-> event.records[k].recordId,
                                 result |-> "Dropped",
                                 data |-> event.records[k].data]

(* a batch with an out-of-scope record, Dropped, and an in-scope one, Ok *)
C8_Witness ==
    /\ fn = "metric"
    /\ Returned
    /\ Len(returned) = 2
    /\ \E line \in Range(event.records[1].data.lines) : OutOfScope(line)
    /\ returned[1].result = "Dropped"
    /\ returned[1].data = event.records[1].data
    /\ returned[2].result = "Ok"
    /\ Len(fetched) = 1

HasLine(record, kind) == \E line \in Range(record.data.lines) : line.kind = kind

CachedLogTags(line) ==
    LET key == <<RdsArn(environ.AWS_REGION, environ.ACCOUNT_ID, line.logGroup[5]),
                 <<"rds", invocation>>>>
    IN  IF CacheHas(arn_cache, key) THEN CacheValue(arn_cache, key) ELSE {}

(* the events the lines of a log record yield, bad lines left out *)
RECURSIVE YieldOf(_)
YieldOf(lines) ==
    IF lines = <<>>
    THEN <<>>
    ELSE (IF /\ Head(lines).kind = "obj"
             /\ Len(Head(lines).logGroup) >= 5
             /\ StartsWith(Head(lines).logGroup[5],
                           log_make_prefixes(environ.ENVIRONMENT).rds_prefix)
             /\ CachedLogTags(Head(lines)) # {}
          THEN [j \in 1..Len(Head(lines).logEvents) |->
                   [logGroup |-> Head(lines).logGroup,
                    logStream |-> Head(lines).logStream,
                    message |-> Head(lines).logEvents[j].message,
                    timestamp |-> Head(lines).logEvents[j].timestamp,
                    Tags |-> CachedLogTags(Head(lines))]]
          ELSE <<>>)
         \o YieldOf(Tail(lines))

NamesLogGroup(ev) ==
    /\ ev.detail.kind = "obj"
    /\ ev.detail.requestParameters.kind = "obj"
    /\ ev.detail.requestParameters.logGroupName.kind = "str"

SubConfigurationValid ==
    /\ environ.ENVIRONMENT \in {<<"development">>, <<"staging">>, <<"production">>}
    /\ environ.FIREHOSE_ARN # None
    /\ environ.ROLE_ARN # None

EnvironmentSuffix ==
    CASE environ.ENVIRONMENT = <<"development">> -> <<"dev">>
      [] environ.ENVIRONMENT = <<"staging">> -> <<"stage">>
      [] environ.ENVIRONMENT = <<"production">> -> <<"prod">>

(* the event's log group is a database log group of this environment *)
Provisionable(ev) ==
    /\ NamesLogGroup(ev)
    /\ StartsWith(ev.detail.requestParameters.logGroupName.value,
                  <<"/aws/rds/instance/", "cg-aws-broker-">> \o EnvironmentSuffix)

(* C10: with valid configuration the provisioner calls create-subscription   *)
(* exactly when logGroupName is present and starts with /aws/rds/instance/   *)
(* and the environment's database prefix; for every other event, a malformed *)
(* one included, it makes no call and raises nothing.                        *)
C10_ProvisionsExactlyMatching ==
    (fn = "sub" /\ SubConfigurationValid) =>
        /\ filters # <<>> <=> Provisionable(event)
        /\ ~Provisionable(event) => outcome = "returned"

(* the key under which the lru_cache of get_tags_from_arn holds the answer   *)
(* to a call of this invocation                                              *)
ArnKey(call) == <<call.target, <<call.target.service, invocation>>>>

(* an augmented event of either pipeline that is about the database named   *)
IsDbEvent(e, name) ==
    IF fn = "log"
    THEN e.logGroup[5] = name
    ELSE e.namespace = "AWS/RDS" /\ Get(e.dimensions, "DBInstanceIdentifier") = name

(* the augmented events of all records handled so far *)
Augmented == UNION {Range(trail[k].augmented) : k \in 1..Len(trail)}

(* C11: in both pipelines, when the tags fetched for a database locator lack *)
(* "Organization GUID", the cached mapping is empty whatever else the fetch  *)
(* returned, and no lookup of that locator in the invocation yields tags: no *)
(* event about that database is augmented.                                   *)
C11_MissingGuidIsEmptyForGood ==
    Transforming =>
        \A k \in 1..Len(fetched) :
            (/\ fetched[k].api = "list_tags_for_resource"
             /\ fetched[k].answer.ok
             /\ "Organization GUID" \notin Keys(fetched[k].answer.tags)) =>
                /\ CacheHas(arn_cache, ArnKey(fetched[k]))
                /\ CacheValue(arn_cache, ArnKey(fetched[k])) = {}
                /\ \A e \in Augmented : ~IsDbEvent(e, fetched[k].target.name)

(* two records about one database whose fetched tags are non-empty and lack  *)
(* the key: one fetch, both records Dropped                                  *)
C11_Witness ==
    /\ fn = "log"
    /\ Returned
    /\ Len(returned) = 2
    /\ Len(fetched) = 1
    /\ fetched[1].answer.ok
    /\ fetched[1].answer.tags = {<<"Owner", "team">>}
    /\ \A k \in 1..2 :
          /\ returned[k].result = "Dropped"
          /\ \E line \in Range(event.records[k].data.lines) :
                /\ line.kind = "obj"
                /\ Len(line.logGroup) >= 5
                /\ line.logGroup[5] = fetched[1].target.name

(* the resource a call of this invocation asked about, as the events name it *)
IsEventOf(e, call) ==
    CASE call.api = "get_bucket_tagging" ->
            e.namespace = "AWS/S3" /\ Get(e.dimensions, "BucketName") = call.target
      [] call.api = "list_tags" ->
            e.namespace = "AWS/ES"
            /\ Get(e.dimensions, "DomainName") = call.target.name
      [] call.api = "list_tags_for_resource" -> IsDbEvent(e, call.target.name)
      [] OTHER -> FALSE

(* two augmented events about one resource *)
SameResource(d, e) ==
    IF fn = "log"
    THEN d.logGroup[5] = e.logGroup[5]
    ELSE d.namespace = e.namespace /\ MetricResourceName(d) = MetricResourceName(e)

(* C12: in an invocation no locator is fetched twice with the same answer,   *)
(* whatever the lookup (database tags, search-domain tags, bucket tags,      *)
(* database description), and the events about one resource all carry the   *)
(* same tag mapping.                                                         *)
C12_SecondLookupHitsCache ==
    Transforming =>
        /\ \A i, j \in 1..Len(fetched) : i # j => fetched[i] # fetched[j]
        /\ \A d, e \in Augmented :
              SameResource(d, e) =>
                  {kv \in d.Tags : kv[1] # "db_size"}
                      = {kv \in e.Tags : kv[1] # "db_size"}

(* the lru_cache holds the empty mapping for the locator of a tag call *)
CachedEmpty(call) ==
    IF call.api = "get_bucket_tagging"
    THEN /\ CacheHas(name_cache, <<call.target, "S3", <<"s3", invocation>>>>)
         /\ CacheValue(name_cache, <<call.target, "S3", <<"s3", invocation>>>>) = {}
    ELSE /\ CacheHas(arn_cache, ArnKey(call))
         /\ CacheValue(arn_cache, ArnKey(call)) = {}

(* C13: in both pipelines and for every tag lookup, when the fetch fails the *)
(* empty mapping is stored for the locator, the locator is not fetched again *)
(* in the invocation, no event about it is augmented, and the failure        *)
(* neither fails a record nor ends the invocation: only a payload that does  *)
(* not decode or a line that does not parse makes a record raise.            *)
C13_FetchFailureCachedEmpty ==
    Transforming =>
        \A k \in 1..Len(fetched) :
            (fetched[k].api # "describe_db_instances" /\ ~fetched[k].answer.ok) =>
                /\ CachedEmpty(fetched[k])
                /\ \A j \in 1..Len(fetched) :
                      (j # k /\ fetched[j].api = fetched[k].api) =>
                          fetched[j].target # fetched[k].target
                /\ \A e \in Augmented : ~IsEventOf(e, fetched[k])
                /\ \A r \in 1..Len(trail) :
                      trail[r].raised =>
                          \/ ~event.records[r].data.decodes
                          \/ HasLine(event.records[r], "badjson")
                          \/ HasLine(event.records[r], "badutf8")
                /\ (fn = "metric" /\ outcome = "raised") => trail[Len(trail)].raised

(* the lines of a handled record that the line loop reached: all of them, or *)
(* those before the first line json.loads rejected                           *)
RECURSIVE Parsed(_)
Parsed(lines) ==
    IF lines = <<>> \/ Head(lines).kind = "badjson"
    THEN <<>>
    ELSE <<Head(lines)>> \o Parsed(Tail(lines))

(* a FreeStorageSpace metric of a database inside the environment's prefix *)
CapacityGauge(line) ==
    /\ line.namespace = "AWS/RDS"
    /\ line.metric_name = "FreeStorageSpace"
    /\ Get(line.dimensions, "DBInstanceIdentifier") # None
    /\ StartsWith(Get(line.dimensions, "DBInstanceIdentifier"), MetricPrefix("AWS/RDS"))

(* the base tag mapping of a database: what get_tags_from_arn holds for it *)
BaseTags(name) ==
    CacheValue(arn_cache, <<RdsArn(environ.AWS_REGION, environ.ACCOUNT_ID, name),
                            <<"rds", invocation>>>>)

Described(name) ==
    \E call \in Range(fetched) :
        call.api = "describe_db_instances" /\ call.target = name

(* the augmented events of record k that come from the metric line *)
EventsOf(k, line) ==
    {e \in Range(trail[k].augmented) :
        /\ e.namespace = line.namespace
        /\ e.metric_name = line.metric_name
        /\ MetricResourceName(e) = MetricResourceName(line)}

(* C14: for every FreeStorageSpace metric of an in-scope database that the   *)
(* metric handler processed: with a non-empty base tag mapping the database  *)
(* description was looked up and the event is augmented with the base tags   *)
(* and a db_size key; with an empty one the description was never looked up  *)
(* and the event is not augmented.                                           *)
C14_DbSizeOnlyWithBaseTags ==
    fn = "metric" =>
        \A k \in 1..Len(trail) :
            \A line \in Range(Parsed(event.records[k].data.lines)) :
                CapacityGauge(line) =>
                    IF BaseTags(MetricResourceName(line)) # {}
                    THEN /\ Described(MetricResourceName(line))
                         /\ EventsOf(k, line) # {}
                         /\ \A e \in EventsOf(k, line) :
                               /\ "db_size" \in Keys(e.Tags)
                               /\ BaseTags(MetricResourceName(line)) \subseteq e.Tags
                               /\ Keys(e.Tags) =
                                     Keys(BaseTags(MetricResourceName(line)))
                                         \cup {"db_size"}
                    ELSE /\ ~Described(MetricResourceName(line))
                         /\ EventsOf(k, line) = {}

(* a gauge of a tagged database, kept with db_size, and a gauge of a         *)
(* database without usable tags, dropped with no description call            *)
C14_Witness ==
    /\ fn = "metric"
    /\ Returned
    /\ Len(returned) = 2
    /\ \A k \in 1..2 :
          /\ Len(event.records[k].data.lines) = 1
          /\ CapacityGauge(event.records[k].data.lines[1])
    /\ returned[1].result = "Ok"
    /\ "db_size" \in Keys(trail[1].augmented[1].Tags)
    /\ returned[2].result = "Dropped"
    /\ Len(fetched) = 3
    /\ fetched[2].api = "describe_db_instances"

(* what get_tags_from_arn makes of the answer to a call: empty on an error,  *)
(* and for a database empty without the "Organization GUID" key              *)
PolicyFiltered(call) ==
    IF ~call.answer.ok
    THEN {}
    ELSE IF /\ call.api = "list_tags_for_resource"
            /\ "Organization GUID" \notin Keys(call.answer.tags)
    THEN {}
    ELSE call.answer.tags

(* C15: in the metric handler every entry of the tag caches holds exactly    *)
(* the mapping that came out of the fetch which stored it, and every         *)
(* augmented event about a database carries that mapping: with a db_size key *)
(* added when its metric_name is FreeStorageSpace, and unchanged, without    *)
(* db_size, for any other metric_name.                                       *)
C15_CachedMappingNeverChanged ==
    fn = "metric" =>
        /\ \A entry \in Range(arn_cache) :
              \E call \in Range(fetched) :
                  /\ call.api \in {"list_tags_for_resource", "list_tags"}
                  /\ ArnKey(call) = entry.key
                  /\ entry.value = PolicyFiltered(call)
        /\ \A entry \in Range(name_cache) :
              \E call \in Range(fetched) :
                  /\ call.api = "get_bucket_tagging"
                  /\ entry.key = <<call.target, "S3", <<"s3", invocation>>>>
                  /\ entry.value = call.answer.tags
        /\ \A e \in Augmented :
              e.namespace = "AWS/RDS" =>
                  IF e.metric_name = "FreeStorageSpace"
                  THEN {kv \in e.Tags : kv[1] # "db_size"}
                          = BaseTags(MetricResourceName(e))
                  ELSE /\ "db_size" \notin Keys(e.Tags)
                       /\ e.Tags = BaseTags(MetricResourceName(e))

(* a FreeStorageSpace event and then a CPUUtilization event of one database: *)
(* one tag fetch, the first event with db_size, the second without           *)
C15_Witness ==
    /\ fn = "metric"
    /\ Returned
    /\ Len(returned) = 2
    /\ returned[1].result = "Ok"
    /\ returned[2].result = "Ok"
    /\ trail[1].augmented[1].namespace = "AWS/RDS"
    /\ trail[1].augmented[1].metric_name = "FreeStorageSpace"
    /\ "db_size" \in Keys(trail[1].augmented[1].Tags)
    /\ trail[2].augmented[1].namespace = "AWS/RDS"
    /\ trail[2].augmented[1].metric_name = "CPUUtilization"
    /\ MetricResourceName(trail[2].augmented[1])
          = MetricResourceName(trail[1].augmented[1])
    /\ "db_size" \notin Keys(trail[2].augmented[1].Tags)
    /\ Len(fetched) = 2

====
